---- MODULE Spec2Model ----
(***************************************************************************)
(* Model of scripts/oc_example.py: a command-line wrapper that shells out  *)
(* to the `oc` binary.  One run of main() is one behaviour: the arguments  *)
(* are fixed in Init, every external invocation is one step, and the       *)
(* answer of the binary (exit code, stdout, stderr, or a launch failure)   *)
(* is chosen nondeterministically at each invocation.                      *)
(***************************************************************************)
EXTENDS Integers, Sequences, FiniteSets, TLC

VARIABLES
    pc,          \* position of main(): which invocation comes next
    command,     \* args.command ("none" when no subcommand was given)
    username,    \* args.username
    groups,      \* args.groups of create-user (<<>> when absent or empty)
    group,       \* args.group of add-to-group
    idx,         \* position of the `for group in groups` loop of create_user
    calls,       \* history of run_oc_command calls: [argv, ok]
    runCount,    \* number of subprocess.run executions so far
    lastProc,    \* what the binary did at the latest invocation
    lastRet,     \* what run_oc_command returned for it
    opRet,       \* return value of the domain operation ("none" before)
    users,       \* value returned by get_users / get_groups
    log,         \* logger records emitted so far
    helpPrinted, \* parser.print_help() was called
    exitStatus   \* process exit status, -1 while running

vars == <<pc, command, username, groups, group, idx, calls, runCount,
          lastProc, lastRet, opRet, users, log, helpPrinted, exitStatus>>

----------------------------------------------------------------------------
(* Bounds and input alphabets *)

MaxGroups == 2

Usernames == {"bob", "alice"}

GroupNames == {"dev", "ops"}

Commands == {"none", "list-users", "create-user", "delete-user",
             "add-to-group", "list-groups"}

GroupLists == UNION {[1..n -> GroupNames] : n \in 0..MaxGroups}

----------------------------------------------------------------------------
(* Decoded JSON values.  An item of the `items` array is a record          *)
(*   ty    : "dict" or "int"    (the JSON type of the item)                *)
(*   meta  : "dict", "null" or "absent"  (its "metadata" member)           *)
(*   name  : metadata.name, "" with hasName = FALSE when absent            *)
(*   usr   : "list", "null" or "absent"  (its "users" member)              *)
(*   nusr  : length of the users list                                      *)

Item(ty, meta, hasName, name, usr, nusr) ==
    [ty |-> ty, meta |-> meta, hasName |-> hasName, name |-> name,
     usr |-> usr, nusr |-> nusr]

Named(n) == Item("dict", "dict", TRUE, n, "absent", 0)

NamedWithUsers(n, k) == Item("dict", "dict", TRUE, n, "list", k)

NoMeta == Item("dict", "absent", FALSE, "", "absent", 0)

NullMeta == Item("dict", "null", FALSE, "", "absent", 0)

NullUsers(n) == Item("dict", "dict", TRUE, n, "null", 0)

IntItem == Item("int", "absent", FALSE, "", "absent", 0)

(* A Python value that get_users can hand back: the `items` member. *)
PyVal(ty, elems) == [ty |-> ty, elems |-> elems]

EmptyList == PyVal("list", <<>>)

(* The top-level decoded document: ty is its JSON type, hasItems tells     *)
(* whether a dict has an "items" key, items is that member's value.        *)
Doc(ty, hasItems, items) == [ty |-> ty, hasItems |-> hasItems, items |-> items]

(* json.loads on the texts the binary is modelled to print: a decoded      *)
(* document, or a JSONDecodeError.                                         *)
JsonLoads(text) ==
    CASE text = "{\"items\":[]}" ->
           [ok |-> TRUE, data |-> Doc("dict", TRUE, EmptyList)]
      [] text = "{\"items\":[{\"metadata\":{\"name\":\"bob\"}}]}" ->
           [ok |-> TRUE, data |-> Doc("dict", TRUE, PyVal("list", <<Named("bob")>>))]
      [] text = "{\"items\":[{\"metadata\":{\"name\":\"alice\"}},{\"metadata\":{\"name\":\"bob\"}}]}" ->
           [ok |-> TRUE, data |-> Doc("dict", TRUE,
                                      PyVal("list", <<Named("alice"), Named("bob")>>))]
      [] text = "{\"items\":[{\"metadata\":{\"name\":\"dev\"},\"users\":[\"bob\"]}]}" ->
           [ok |-> TRUE, data |-> Doc("dict", TRUE,
                                      PyVal("list", <<NamedWithUsers("dev", 1)>>))]
      [] text = "{\"items\":[{}]}" ->
           [ok |-> TRUE, data |-> Doc("dict", TRUE, PyVal("list", <<NoMeta>>))]
      [] text = "{\"items\":[{\"metadata\":{\"name\":\"bob\"}},{\"metadata\":null}]}" ->
           [ok |-> TRUE, data |-> Doc("dict", TRUE,
                                      PyVal("list", <<Named("bob"), NullMeta>>))]
      [] text = "{\"items\":[{\"metadata\":{\"name\":\"ops\"},\"users\":null}]}" ->
           [ok |-> TRUE, data |-> Doc("dict", TRUE, PyVal("list", <<NullUsers("ops")>>))]
      [] text = "{\"items\":[1]}" ->
           [ok |-> TRUE, data |-> Doc("dict", TRUE, PyVal("list", <<IntItem>>))]
      [] text = "{\"items\":null}" ->
           [ok |-> TRUE, data |-> Doc("dict", TRUE, PyVal("null", <<>>))]
      [] text = "{}" ->
           [ok |-> TRUE, data |-> Doc("dict", FALSE, EmptyList)]
      [] text = "[]" ->
           [ok |-> TRUE, data |-> Doc("list", FALSE, EmptyList)]
      [] OTHER ->
           [ok |-> FALSE, data |-> Doc("none", FALSE, EmptyList)]

(* Texts a query call may print on exit code 0. *)
QueryTexts ==
    {"{\"items\":[]}",
     "{\"items\":[{\"metadata\":{\"name\":\"bob\"}}]}",
     "{\"items\":[{\"metadata\":{\"name\":\"alice\"}},{\"metadata\":{\"name\":\"bob\"}}]}",
     "{\"items\":[{\"metadata\":{\"name\":\"dev\"},\"users\":[\"bob\"]}]}",
     "{\"items\":[{}]}",
     "{\"items\":[{\"metadata\":{\"name\":\"bob\"}},{\"metadata\":null}]}",
     "{\"items\":[{\"metadata\":{\"name\":\"ops\"},\"users\":null}]}",
     "{\"items\":[1]}",
     "{\"items\":null}",
     "{}",
     "[]",
     "Unable to connect to the server"}

----------------------------------------------------------------------------
(* The external binary *)

Proc(kind, out, err, msg) == [kind |-> kind, stdout |-> out, stderr |-> err, msg |-> msg]

NoProc == Proc("none", "", "", "")

IsQuery(argv) == argv = <<"get", "users", "-o", "json">>
                 \/ argv = <<"get", "groups", "-o", "json">>

(* Everything one execution of `oc argv` can do: exit with code 0, exit    *)
(* with another code, or fail to launch.                                   *)
Procs(argv) ==
    {Proc("exit0", t, "warning", "") :
        t \in IF IsQuery(argv) THEN QueryTexts ELSE {"ok\n"}}
    \cup {Proc("nonzero", "partial", "Error from server\n", ""),
          Proc("launch", "", "", "[Errno 2] No such file or directory: 'oc'")}

----------------------------------------------------------------------------
(* Logging *)

L(level, msg, arg) == [level |-> level, msg |-> msg, arg |-> arg, num |-> 0]

LN(level, msg, n) == [level |-> level, msg |-> msg, arg |-> "", num |-> n]

(* str.strip() on the texts of the model *)
Strip(text) ==
    CASE text = "ok\n" -> "ok"
      [] text = "Error from server\n" -> "Error from server"
      [] OTHER -> text

Logged(msg) == \E i \in 1..Len(log) : log[i].msg = msg

----------------------------------------------------------------------------
(* run_oc_command: one subprocess.run with check=True.  Exit code 0        *)
(* returns (True, stdout); CalledProcessError returns (False, stderr);     *)
(* any other exception returns (False, str(e)).  `runs` counts the         *)
(* executions of the binary the call made.                                 *)

RunOcCommand_Retry(p) ==
    IF p.kind = "exit0"
    THEN [success |-> TRUE, output |-> p.stdout, runs |-> 1, logs |-> <<>>]
    ELSE IF p.kind = "nonzero"
    THEN [success |-> FALSE, output |-> p.stderr, runs |-> 2,
          logs |-> <<L("ERROR", "Command failed", ""), L("ERROR", "Error", Strip(p.stderr))>>]
    ELSE [success |-> FALSE, output |-> p.msg, runs |-> 1,
          logs |-> <<L("ERROR", "Exception while running command", p.msg)>>]

RunOcCommand(p) ==
    IF p.kind = "exit0"
    THEN [success |-> TRUE, output |-> p.stdout, runs |-> 1, logs |-> <<>>]
    ELSE IF p.kind = "nonzero"
    THEN [success |-> FALSE, output |-> p.stderr, runs |-> 1,
          logs |-> <<L("ERROR", "Command failed", ""), L("ERROR", "Error", Strip(p.stderr))>>]
    ELSE [success |-> FALSE, output |-> p.msg, runs |-> 1,
          logs |-> <<L("ERROR", "Exception while running command", p.msg)>>]

Ret(r) == [success |-> r.success, output |-> r.output]

NoRet == [success |-> FALSE, output |-> ""]

(* The bookkeeping of one invocation of run_oc_command(argv) answered by p *)
Invoke(argv, p) ==
    /\ calls' = Append(calls, [argv |-> argv, ok |-> RunOcCommand(p).success])
    /\ runCount' = runCount + RunOcCommand(p).runs
    /\ lastProc' = p
    /\ lastRet' = Ret(RunOcCommand(p))

----------------------------------------------------------------------------
(* get_users / get_groups, applied to the result r of their query call.    *)
(* raised = TRUE: an exception other than JSONDecodeError left the         *)
(* function (data.get on a value that is not a dict).                      *)

Unset == PyVal("unset", <<>>)

GetUsers(r) ==
    IF ~r.success
    THEN [raised |-> FALSE, val |-> EmptyList,
          logs |-> <<L("ERROR", "Failed to get users", "")>>]
    ELSE LET d == JsonLoads(r.output) IN
         IF ~d.ok
         THEN [raised |-> FALSE, val |-> EmptyList,
               logs |-> <<L("ERROR", "Failed to parse user data as JSON", "")>>]
         ELSE IF d.data.ty # "dict"
         THEN [raised |-> TRUE, val |-> Unset, logs |-> <<>>]
         ELSE [raised |-> FALSE,
               val |-> IF d.data.hasItems THEN d.data.items ELSE EmptyList,
               logs |-> <<>>]

GetGroups(r) ==
    IF ~r.success
    THEN [raised |-> FALSE, val |-> EmptyList,
          logs |-> <<L("ERROR", "Failed to get groups", "")>>]
    ELSE LET d == JsonLoads(r.output) IN
         IF ~d.ok
         THEN [raised |-> FALSE, val |-> EmptyList,
               logs |-> <<L("ERROR", "Failed to parse group data as JSON", "")>>]
         ELSE IF d.data.ty # "dict"
         THEN [raised |-> TRUE, val |-> Unset, logs |-> <<>>]
         ELSE [raised |-> FALSE,
               val |-> IF d.data.hasItems THEN d.data.items ELSE EmptyList,
               logs |-> <<>>]

(* len(v) raises TypeError unless v is a list *)
LenRaises(v) == v.ty # "list"

(* item.get('metadata', {}).get('name', default) *)
NameRaises(item) == item.ty # "dict" \/ item.meta = "null"

NameOr(item, default) ==
    IF item.meta = "dict" /\ item.hasName THEN item.name ELSE default

(* group.get('metadata', {}).get('name', 'Unknown'); group.get('users', []); len(users) *)
GroupRaises(item) == NameRaises(item) \/ item.usr = "null"

(* Least position of elems satisfying P, Len(elems) + 1 when there is none *)
FirstPos(elems, P(_)) ==
    IF \E i \in 1..Len(elems) : P(elems[i])
    THEN CHOOSE i \in 1..Len(elems) :
            P(elems[i]) /\ \A j \in 1..(i - 1) : ~P(elems[j])
    ELSE Len(elems) + 1

----------------------------------------------------------------------------
(* Initial state: the arguments argparse hands to main()                   *)

Init ==
    /\ pc = "whoami"
    /\ command \in Commands
    /\ username \in IF command \in {"create-user", "delete-user", "add-to-group"}
                    THEN Usernames ELSE {""}
    /\ groups \in IF command = "create-user" THEN GroupLists ELSE {<<>>}
    /\ group \in IF command = "add-to-group" THEN GroupNames ELSE {""}
    /\ idx = 0
    /\ calls = <<>>
    /\ runCount = 0
    /\ lastProc = NoProc
    /\ lastRet = NoRet
    /\ opRet = "none"
    /\ users = Unset
    /\ log = <<>>
    /\ helpPrinted = FALSE
    /\ exitStatus = -1

Args == <<command, username, groups, group>>

(* sys.exit(1) *)
SysExit ==
    /\ pc' = "exited"
    /\ exitStatus' = 1

(* main() returns: the interpreter exits with status 0 *)
Finish ==
    /\ pc' = "done"
    /\ exitStatus' = 0

(* an exception leaves main(): traceback, exit status 1 *)
Crash ==
    /\ pc' = "crashed"
    /\ exitStatus' = 1

Terminated == pc \in {"done", "exited", "crashed"}

----------------------------------------------------------------------------
(* main() up to check_connection(): is_logged_in() runs `oc whoami`        *)

Whoami_NoExit ==
    /\ pc = "whoami"
    /\ \E p \in Procs(<<"whoami">>) :
         LET r == RunOcCommand(p) IN
         /\ Invoke(<<"whoami">>, p)
         /\ IF r.success
            THEN /\ log' = log \o r.logs
                 /\ pc' = "project"
                 /\ UNCHANGED exitStatus
            ELSE /\ log' = log \o r.logs
                          \o <<L("ERROR", "Not logged in to OpenShift cluster", "")>>
                 /\ pc' = "project"
                 /\ UNCHANGED exitStatus
    /\ UNCHANGED <<Args, idx, opRet, users, helpPrinted>>

Whoami ==
    /\ pc = "whoami"
    /\ \E p \in Procs(<<"whoami">>) :
         LET r == RunOcCommand(p) IN
         /\ Invoke(<<"whoami">>, p)
         /\ IF r.success
            THEN /\ log' = log \o r.logs
                 /\ pc' = "project"
                 /\ UNCHANGED exitStatus
            ELSE /\ log' = log \o r.logs
                          \o <<L("ERROR", "Not logged in to OpenShift cluster", "")>>
                 /\ SysExit
    /\ UNCHANGED <<Args, idx, opRet, users, helpPrinted>>

(* check_connection(), second step: `oc project` *)
Project ==
    /\ pc = "project"
    /\ \E p \in Procs(<<"project">>) :
         LET r == RunOcCommand(p) IN
         /\ Invoke(<<"project">>, p)
         /\ IF r.success
            THEN /\ log' = log \o r.logs
                          \o <<L("INFO", "Connected to OpenShift", Strip(r.output))>>
                 /\ pc' = "dispatch"
                 /\ UNCHANGED exitStatus
            ELSE /\ log' = log \o r.logs
                          \o <<L("ERROR", "Failed to get current project", "")>>
                 /\ SysExit
    /\ UNCHANGED <<Args, idx, opRet, users, helpPrinted>>

(* main(), else branch: no subcommand *)
NoCommand ==
    /\ pc = "dispatch"
    /\ command = "none"
    /\ log' = Append(log, L("ERROR", "No command specified", ""))
    /\ helpPrinted' = TRUE
    /\ Finish
    /\ UNCHANGED <<Args, idx, calls, runCount, lastProc, lastRet, opRet, users>>

----------------------------------------------------------------------------
(* main(), list-users branch, with get_users() *)

ListUsers ==
    /\ pc = "dispatch"
    /\ command = "list-users"
    /\ \E p \in Procs(<<"get", "users", "-o", "json">>) :
         LET r   == RunOcCommand(p)
             g   == GetUsers(Ret(r))
             pre == log \o <<L("INFO", "Getting list of users...", "")>>
                        \o r.logs \o g.logs
             n   == Len(g.val.elems)
             k   == FirstPos(g.val.elems, NameRaises)
         IN
         /\ Invoke(<<"get", "users", "-o", "json">>, p)
         /\ users' = g.val
         /\ IF g.raised \/ LenRaises(g.val)
            THEN /\ log' = pre
                 /\ Crash
            ELSE /\ log' = pre
                      \o <<LN("INFO", "Found users", n)>>
                      \o (IF n > 0 THEN <<L("INFO", "User list:", "")>> ELSE <<>>)
                      \o [i \in 1..(k - 1) |->
                            L("INFO", "-", NameOr(g.val.elems[i], "Unknown"))]
                 /\ IF k <= n THEN Crash ELSE Finish
    /\ UNCHANGED <<Args, idx, opRet, helpPrinted>>

(* main(), list-groups branch, with get_groups() *)
ListGroups ==
    /\ pc = "dispatch"
    /\ command = "list-groups"
    /\ \E p \in Procs(<<"get", "groups", "-o", "json">>) :
         LET r   == RunOcCommand(p)
             g   == GetGroups(Ret(r))
             pre == log \o <<L("INFO", "Getting list of groups...", "")>>
                        \o r.logs \o g.logs
             n   == Len(g.val.elems)
             k   == FirstPos(g.val.elems, GroupRaises)
         IN
         /\ Invoke(<<"get", "groups", "-o", "json">>, p)
         /\ users' = g.val
         /\ IF g.raised \/ LenRaises(g.val)
            THEN /\ log' = pre
                 /\ Crash
            ELSE /\ log' = pre
                      \o <<LN("INFO", "Found groups", n)>>
                      \o (IF n > 0 THEN <<L("INFO", "Group list:", "")>> ELSE <<>>)
                      \o [i \in 1..(k - 1) |->
                            [level |-> "INFO", msg |-> "-",
                             arg |-> NameOr(g.val.elems[i], "Unknown"),
                             num |-> g.val.elems[i].nusr]]
                 /\ IF k <= n THEN Crash ELSE Finish
    /\ UNCHANGED <<Args, idx, opRet, helpPrinted>>

----------------------------------------------------------------------------
(* main(), delete-user branch, with delete_user() *)

DeleteUser_Retry ==
    /\ pc \in {"dispatch", "retry"}
    /\ command = "delete-user"
    /\ \E p \in Procs(<<"delete", "user", username>>) :
         LET r   == RunOcCommand(p)
             pre == log \o <<L("INFO", "Deleting user...", username)>> \o r.logs
         IN
         /\ Invoke(<<"delete", "user", username>>, p)
         /\ IF r.success
            THEN /\ opRet' = "true"
                 /\ log' = pre
                      \o <<L("INFO", "User deleted successfully", username),
                           L("INFO", "Successfully deleted user", username)>>
                 /\ Finish
            ELSE IF pc = "dispatch"
            THEN /\ opRet' = "none"
                 /\ log' = pre
                 /\ pc' = "retry"
                 /\ UNCHANGED exitStatus
            ELSE /\ opRet' = "false"
                 /\ log' = pre
                      \o <<L("ERROR", "delete_user: Failed to delete user", username),
                           L("ERROR", "Failed to delete user", username)>>
                 /\ Finish
    /\ UNCHANGED <<Args, idx, users, helpPrinted>>

DeleteUser ==
    /\ pc = "dispatch"
    /\ command = "delete-user"
    /\ \E p \in Procs(<<"delete", "user", username>>) :
         LET r   == RunOcCommand(p)
             pre == log \o <<L("INFO", "Deleting user...", username)>> \o r.logs
         IN
         /\ Invoke(<<"delete", "user", username>>, p)
         /\ IF r.success
            THEN /\ opRet' = "true"
                 /\ log' = pre
                      \o <<L("INFO", "User deleted successfully", username),
                           L("INFO", "Successfully deleted user", username)>>
            ELSE /\ opRet' = "false"
                 /\ log' = pre
                      \o <<L("ERROR", "delete_user: Failed to delete user", username),
                           L("ERROR", "Failed to delete user", username)>>
         /\ Finish
    /\ UNCHANGED <<Args, idx, users, helpPrinted>>

----------------------------------------------------------------------------
(* main(), add-to-group branch, with add_user_to_group(): three steps      *)

AddToGroupFailed ==
    <<L("ERROR", "Failed to add user to group", username)>>

AtgGet ==
    /\ pc = "dispatch"
    /\ command = "add-to-group"
    /\ \E p \in Procs(<<"get", "group", group>>) :
         LET r   == RunOcCommand(p)
             pre == log \o <<L("INFO", "Adding user to group...", username)>> \o r.logs
         IN
         /\ Invoke(<<"get", "group", group>>, p)
         /\ IF r.success
            THEN /\ log' = pre
                 /\ pc' = "atg_add"
            ELSE /\ log' = pre \o <<L("INFO", "Group doesn't exist, creating it", group)>>
                 /\ pc' = "atg_new"
    /\ UNCHANGED <<Args, idx, opRet, users, helpPrinted, exitStatus>>

AtgNew_Continue ==
    /\ pc = "atg_new"
    /\ \E p \in Procs(<<"adm", "groups", "new", group>>) :
         LET r == RunOcCommand(p) IN
         /\ Invoke(<<"adm", "groups", "new", group>>, p)
         /\ IF r.success
            THEN /\ log' = log \o r.logs
                 /\ pc' = "atg_add"
            ELSE /\ log' = log \o r.logs
                      \o <<L("WARNING", "Failed to create group", group)>>
                 /\ pc' = "atg_add"
    /\ UNCHANGED <<Args, idx, opRet, users, helpPrinted, exitStatus>>

AtgNew ==
    /\ pc = "atg_new"
    /\ \E p \in Procs(<<"adm", "groups", "new", group>>) :
         LET r == RunOcCommand(p) IN
         /\ Invoke(<<"adm", "groups", "new", group>>, p)
         /\ IF r.success
            THEN /\ log' = log \o r.logs
                 /\ pc' = "atg_add"
                 /\ UNCHANGED <<opRet, exitStatus>>
            ELSE /\ log' = log \o r.logs
                      \o <<L("ERROR", "Failed to create group", group)>>
                      \o AddToGroupFailed
                 /\ opRet' = "false"
                 /\ Finish
    /\ UNCHANGED <<Args, idx, users, helpPrinted>>

AtgAdd ==
    /\ pc = "atg_add"
    /\ \E p \in Procs(<<"adm", "groups", "add-users", group, username>>) :
         LET r == RunOcCommand(p) IN
         /\ Invoke(<<"adm", "groups", "add-users", group, username>>, p)
         /\ IF r.success
            THEN /\ log' = log \o r.logs
                      \o <<L("INFO", "Added user to group", group),
                           L("INFO", "Successfully added user to group", username)>>
                 /\ opRet' = "true"
            ELSE /\ log' = log \o r.logs
                      \o <<L("ERROR", "add_user_to_group: Failed to add user to group", group)>>
                      \o AddToGroupFailed
                 /\ opRet' = "false"
         /\ Finish
    /\ UNCHANGED <<Args, idx, users, helpPrinted>>

----------------------------------------------------------------------------
(* main(), create-user branch, with create_user()                          *)

(* The loop of create_user moves to the next group, or create_user returns *)
(* True and main() goes on to the verification.                            *)
NextGroup_Break(failed) ==
    IF idx < Len(groups) /\ ~failed
    THEN /\ idx' = idx + 1
         /\ pc' = "grp_get"
         /\ UNCHANGED opRet
    ELSE /\ idx' = idx
         /\ pc' = "verify"
         /\ opRet' = "true"

NextGroup(failed) ==
    IF idx < Len(groups)
    THEN /\ idx' = idx + 1
         /\ pc' = "grp_get"
         /\ UNCHANGED opRet
    ELSE /\ idx' = idx
         /\ pc' = "verify"
         /\ opRet' = "true"

(* Records logged when the loop is left: main() reports the success *)
AfterGroup ==
    IF idx < Len(groups) THEN <<>>
    ELSE <<L("INFO", "Successfully created user", username)>>

CreateUserCall_Continue ==
    /\ pc = "dispatch"
    /\ command = "create-user"
    /\ \E p \in Procs(<<"create", "user", username>>) :
         LET r   == RunOcCommand(p)
             pre == log \o <<L("INFO", "Creating user...", username)>> \o r.logs
         IN
         /\ Invoke(<<"create", "user", username>>, p)
         /\ IF r.success
            THEN log' = pre \o <<L("INFO", "User created successfully", username)>>
            ELSE log' = pre \o <<L("ERROR", "create_user: Failed to create user", username)>>
         /\ IF groups # <<>>
            THEN /\ idx' = 1
                 /\ pc' = "grp_get"
                 /\ opRet' = IF r.success THEN opRet ELSE "false"
            ELSE /\ idx' = idx
                 /\ pc' = "verify"
                 /\ opRet' = IF r.success THEN "true" ELSE "false"
         /\ UNCHANGED exitStatus
    /\ UNCHANGED <<Args, users, helpPrinted>>

CreateUserCall ==
    /\ pc = "dispatch"
    /\ command = "create-user"
    /\ \E p \in Procs(<<"create", "user", username>>) :
         LET r   == RunOcCommand(p)
             pre == log \o <<L("INFO", "Creating user...", username)>> \o r.logs
         IN
         /\ Invoke(<<"create", "user", username>>, p)
         /\ IF ~r.success
            THEN /\ log' = pre
                      \o <<L("ERROR", "create_user: Failed to create user", username),
                           L("ERROR", "Failed to create user", username)>>
                 /\ opRet' = "false"
                 /\ idx' = idx
                 /\ Finish
            ELSE IF groups # <<>>
            THEN /\ log' = pre \o <<L("INFO", "User created successfully", username)>>
                 /\ idx' = 1
                 /\ pc' = "grp_get"
                 /\ UNCHANGED <<opRet, exitStatus>>
            ELSE /\ log' = pre
                      \o <<L("INFO", "User created successfully", username),
                           L("INFO", "Successfully created user", username)>>
                 /\ idx' = idx
                 /\ pc' = "verify"
                 /\ opRet' = "true"
                 /\ UNCHANGED exitStatus
    /\ UNCHANGED <<Args, users, helpPrinted>>

(* loop body, first call: does the group exist? *)
GroupGet ==
    /\ pc = "grp_get"
    /\ \E p \in Procs(<<"get", "group", groups[idx]>>) :
         LET r == RunOcCommand(p) IN
         /\ Invoke(<<"get", "group", groups[idx]>>, p)
         /\ IF r.success
            THEN /\ log' = log \o r.logs
                 /\ pc' = "grp_add"
            ELSE /\ log' = log \o r.logs
                      \o <<L("INFO", "Group doesn't exist, creating it", groups[idx])>>
                 /\ pc' = "grp_new"
    /\ UNCHANGED <<Args, idx, opRet, users, helpPrinted, exitStatus>>

(* loop body, second call: create the missing group; `continue` on failure *)
GroupNew ==
    /\ pc = "grp_new"
    /\ \E p \in Procs(<<"adm", "groups", "new", groups[idx]>>) :
         LET r == RunOcCommand(p) IN
         /\ Invoke(<<"adm", "groups", "new", groups[idx]>>, p)
         /\ IF r.success
            THEN /\ log' = log \o r.logs
                 /\ pc' = "grp_add"
                 /\ UNCHANGED <<idx, opRet>>
            ELSE /\ log' = log \o r.logs
                      \o <<L("WARNING", "Failed to create group", groups[idx])>>
                      \o AfterGroup
                 /\ NextGroup(TRUE)
    /\ UNCHANGED <<Args, users, helpPrinted, exitStatus>>

(* loop body, third call: add the user to the group *)
GroupAdd ==
    /\ pc = "grp_add"
    /\ \E p \in Procs(<<"adm", "groups", "add-users", groups[idx], username>>) :
         LET r == RunOcCommand(p) IN
         /\ Invoke(<<"adm", "groups", "add-users", groups[idx], username>>, p)
         /\ log' = log \o r.logs
              \o (IF r.success
                  THEN <<L("INFO", "Added user to group", groups[idx])>>
                  ELSE <<L("WARNING", "Failed to add user to group", groups[idx])>>)
              \o AfterGroup
         /\ NextGroup(~r.success)
    /\ UNCHANGED <<Args, users, helpPrinted, exitStatus>>

(* item.get('metadata', {}).get('name') == username *)
NameMatches(item) == item.meta = "dict" /\ item.hasName /\ item.name = username

(* main(): the verification after create_user returned True.  any() stops  *)
(* at the first item that matches or on which the lookup raises.           *)
Verify_Skip ==
    /\ pc = "verify"
    /\ log' = Append(log, L("INFO", "Verified user exists in the system", username))
    /\ Finish
    /\ UNCHANGED <<Args, idx, calls, runCount, lastProc, lastRet, opRet, users, helpPrinted>>

Verify ==
    /\ pc = "verify"
    /\ \E p \in Procs(<<"get", "users", "-o", "json">>) :
         LET r   == RunOcCommand(p)
             g   == GetUsers(Ret(r))
             pre == log \o r.logs \o g.logs
             n   == Len(g.val.elems)
             Stop(item) == NameRaises(item) \/ NameMatches(item)
             k   == FirstPos(g.val.elems, Stop)
         IN
         /\ Invoke(<<"get", "users", "-o", "json">>, p)
         /\ users' = g.val
         /\ IF g.raised \/ g.val.ty # "list"
            THEN /\ log' = pre
                 /\ Crash
            ELSE IF k <= n /\ NameRaises(g.val.elems[k])
            THEN /\ log' = pre
                 /\ Crash
            ELSE IF k <= n
            THEN /\ log' = pre
                      \o <<L("INFO", "Verified user exists in the system", username)>>
                 /\ Finish
            ELSE /\ log' = pre
                      \o <<L("WARNING", "User was not found after creation", username)>>
                 /\ Finish
    /\ UNCHANGED <<Args, idx, opRet, helpPrinted>>

----------------------------------------------------------------------------

Next ==
    \/ Whoami
    \/ Project
    \/ NoCommand
    \/ ListUsers
    \/ ListGroups
    \/ DeleteUser
    \/ AtgGet
    \/ AtgNew
    \/ AtgAdd
    \/ CreateUserCall
    \/ GroupGet
    \/ GroupNew
    \/ GroupAdd
    \/ Verify

Spec == Init /\ [][Next]_vars

----------------------------------------------------------------------------
(* Vocabulary of the properties *)

IsConn(argv) == argv = <<"whoami">> \/ argv = <<"project">>

IsDomain(argv) == ~IsConn(argv)

IsGroupQuery(c) == Len(c.argv) = 3 /\ c.argv[1] = "get" /\ c.argv[2] = "group"

IsGroupNew(c) == Len(c.argv) = 4 /\ c.argv[1] = "adm" /\ c.argv[3] = "new"

IsGroupAdd(c) == Len(c.argv) = 5 /\ c.argv[1] = "adm" /\ c.argv[3] = "add-users"

IsUserList(c) == c.argv = <<"get", "users", "-o", "json">>

IsDelete(c) == Len(c.argv) = 3 /\ c.argv[1] = "delete"

ConnectionFailed ==
    \E i \in 1..Len(calls) : IsConn(calls[i].argv) /\ ~calls[i].ok

ConnectionPassed ==
    /\ Len(calls) >= 2
    /\ calls[1] = [argv |-> <<"whoami">>, ok |-> TRUE]
    /\ calls[2] = [argv |-> <<"project">>, ok |-> TRUE]

(* The domain operation has issued its first call *)
OpStarted == Len(calls) >= 3

(* The groups whose existence query was issued, in the order of the calls *)
QueriedGroups ==
    LET q == SelectSeq(calls, IsGroupQuery)
    IN  [i \in 1..Len(q) |-> q[i].argv[3]]

IsPrefix(a, b) == Len(a) <= Len(b) /\ \A i \in 1..Len(a) : a[i] = b[i]

(* The text decodes to an object whose items member is an array *)
ItemsOf(text) ==
    LET d == JsonLoads(text)
    IN  IF d.ok /\ d.data.ty = "dict" /\ d.data.hasItems /\ d.data.items.ty = "list"
        THEN d.data.items.elems
        ELSE <<>>

HasItemsArray(text) ==
    LET d == JsonLoads(text)
    IN  d.ok /\ d.data.ty = "dict" /\ d.data.hasItems /\ d.data.items.ty = "list"

----------------------------------------------------------------------------
(* C1: when main is invoked with no subcommand it prints the usage help    *)
(* and performs no external invocation at all, not even whoami or project. *)
C1_NoSubcommandNoInvocation ==
    command = "none" =>
        /\ calls = <<>>
        /\ (Terminated => helpPrinted)

(* C2: no domain-operation invocation is issued unless whoami and then     *)
(* project were issued first and both succeeded; when either fails the     *)
(* process exits with a non-zero status and no domain invocation.          *)
C2_DomainOnlyAfterConnection ==
    /\ \A i \in 1..Len(calls) :
          IsDomain(calls[i].argv) => (i >= 3 /\ ConnectionPassed)
    /\ ConnectionFailed =>
          /\ pc = "exited"
          /\ exitStatus = 1
          /\ \A i \in 1..Len(calls) : IsConn(calls[i].argv)

C2_Witness ==
    /\ OpStarted
    /\ IsDomain(calls[3].argv)
    /\ ConnectionPassed

(* C3: for every recognized subcommand and every outcome of the external   *)
(* invocations the exit status is 1 if the connection check failed and 0   *)
(* otherwise.                                                              *)
C3_ExitStatusOnlyFromConnection ==
    (Terminated /\ command # "none") =>
        exitStatus = (IF ConnectionFailed THEN 1 ELSE 0)

(* C4: for every text a query call returns with exit code 0, get_users and *)
(* get_groups return a list (the empty list when no items can be           *)
(* extracted) and never propagate an error, and the list-users and         *)
(* list-groups branches complete without an uncaught error.                *)
C4_QueryAlwaysYieldsList ==
    (OpStarted /\ IsQuery(calls[Len(calls)].argv) /\ lastProc.kind = "exit0") =>
        /\ users.ty = "list"
        /\ (~HasItemsArray(lastProc.stdout) => users = EmptyList)
        /\ (command \in {"list-users", "list-groups"} => pc = "done")

(* C5: in create_user with a non-empty group list, once the create call    *)
(* succeeded, every group gets its existence query, in list order,         *)
(* whatever the earlier groups' calls answered, and create_user returns    *)
(* true.                                                                   *)
C5_EveryGroupQueriedInOrder ==
    (command = "create-user" /\ groups # <<>> /\ OpStarted /\ calls[3].ok) =>
        /\ IsPrefix(QueriedGroups, groups)
        /\ (pc \in {"verify", "done", "crashed"} =>
               /\ QueriedGroups = groups
               /\ opRet = "true")
        /\ opRet # "false"

C5_Witness ==
    /\ command = "create-user"
    /\ pc = "verify"
    /\ Len(groups) >= 2
    /\ opRet = "true"
    /\ \E i \in 1..Len(calls) : IsGroupNew(calls[i]) /\ ~calls[i].ok
                                /\ i < Len(calls)
    /\ \E i \in 1..Len(calls) : IsGroupAdd(calls[i]) /\ ~calls[i].ok

(* C6: when the create call of create-user fails, create_user returns      *)
(* false and the run issues no further external invocation, group list or  *)
(* not.                                                                    *)
C6_CreateFailureStopsRun ==
    (command = "create-user" /\ OpStarted /\ ~calls[3].ok) =>
        /\ Len(calls) = 3
        /\ opRet = "false"
        /\ pc = "done"

C6_Witness ==
    /\ command = "create-user"
    /\ groups # <<>>
    /\ OpStarted
    /\ ~calls[3].ok
    /\ pc = "done"

(* C7: add_user_to_group issues the group creation only after a failed     *)
(* existence query, issues the membership-add call iff the query or the    *)
(* creation succeeded, and returns true iff the membership-add call was    *)
(* issued and succeeded; when query and creation both fail it returns      *)
(* failure without a membership-add call.                                  *)
C7_AddToGroupSequence ==
    command = "add-to-group" =>
        LET newAt == {i \in 1..Len(calls) : IsGroupNew(calls[i])}
            addAt == {i \in 1..Len(calls) : IsGroupAdd(calls[i])}
            groupReady == \/ (OpStarted /\ calls[3].ok)
                          \/ \E i \in newAt : calls[i].ok
        IN  /\ \A i \in newAt :
                  /\ i = 4
                  /\ IsGroupQuery(calls[3])
                  /\ ~calls[3].ok
            /\ (addAt # {} => groupReady)
            /\ (pc = "done" =>
                  /\ (addAt # {} <=> groupReady)
                  /\ (opRet = "true" <=> \E i \in addAt : calls[i].ok)
                  /\ (opRet = "false" <=> ~\E i \in addAt : calls[i].ok))

C7_Witness ==
    /\ command = "add-to-group"
    /\ pc = "done"
    /\ Len(calls) = 4
    /\ ~calls[3].ok
    /\ ~calls[4].ok
    /\ opRet = "false"

(* C8: a delete-user run that passed the connection check issues exactly   *)
(* one delete call; when it exits non-zero delete_user returns false, the  *)
(* failure is logged and nothing more is invoked before the process ends.  *)
C8_DeleteIsOneCall ==
    (command = "delete-user" /\ ConnectionPassed) =>
        /\ Len(calls) <= 3
        /\ (Terminated => Cardinality({i \in 1..Len(calls) : IsDelete(calls[i])}) = 1)
        /\ ((OpStarted /\ ~calls[3].ok) =>
               /\ opRet = "false"
               /\ Logged("Failed to delete user")
               /\ pc = "done")

C8_Witness ==
    /\ command = "delete-user"
    /\ OpStarted
    /\ lastProc.kind = "nonzero"
    /\ pc = "done"

(* C9: each call of run_oc_command executes the binary exactly once and    *)
(* returns (true, stdout) iff the process exited with code zero; on a      *)
(* non-zero exit it returns (false, stderr) and on a launch failure        *)
(* (false, exception message).                                             *)
C9_RunOcCommandResult ==
    /\ runCount = Len(calls)
    /\ lastProc.kind # "none" =>
          /\ (lastRet.success <=> lastProc.kind = "exit0")
          /\ calls[Len(calls)].ok = lastRet.success
          /\ (lastProc.kind = "exit0" => lastRet.output = lastProc.stdout)
          /\ (lastProc.kind = "nonzero" => lastRet.output = lastProc.stderr)
          /\ (lastProc.kind = "launch" => lastRet.output = lastProc.msg)

C9_Witness ==
    /\ Len(calls) >= 4
    /\ lastProc.kind = "nonzero"
    /\ \E i \in 1..Len(calls) : calls[i].ok

(* C10: in a create-user run the verification re-list is issued iff        *)
(* create_user returned true, after all group calls; 'verified' is logged  *)
(* iff the re-list contains an item whose metadata.name is the username,   *)
(* and otherwise the 'not found after creation' warning is logged.         *)
C10_VerificationOutcome ==
    (command = "create-user" /\ Terminated) =>
        LET listAt   == {i \in 1..Len(calls) : IsUserList(calls[i])}
            contains == /\ listAt # {}
                        /\ lastRet.success
                        /\ \E j \in 1..Len(ItemsOf(lastRet.output)) :
                              NameMatches(ItemsOf(lastRet.output)[j])
        IN  /\ (listAt # {} <=> opRet = "true")
            /\ \A i \in listAt : i = Len(calls)
            /\ (Logged("Verified user exists in the system") <=> contains)
            /\ ((opRet = "true" /\ ~contains) =>
                   Logged("User was not found after creation"))

====
